---------------------------- MODULE Spec2Model ----------------------------
(***************************************************************************)
(* A model of ecc.connection.EdgeDBCloudConn (src/ecc/connection.py) and   *)
(* of ecc.utils.match_func_name (src/ecc/utils.py): query classification,  *)
(* call-variant selection, the TTL memoizer installed around _imquery, the *)
(* per-window / cumulative call counters and the session scope.            *)
(*                                                                         *)
(* Scheduling is asyncio's: one step of the model is the code a task runs  *)
(* between two suspension points.                                          *)
(***************************************************************************)
EXTENDS Integers, Sequences, FiniteSets, TLC

(***************************************************************************)
(* Bounds of the model.                                                    *)
(***************************************************************************)
\* number of query tasks one behaviour creates
MaxReq == 2
\* last instant of the discrete clock
MaxTime == 1
\* number of session scopes one behaviour enters
MaxWin == 2
\* longest run of filler characters put before and after a word of a text
MaxPad == 1

(***************************************************************************)
(* Query texts are sequences of characters (TLC does not index strings).   *)
(***************************************************************************)
Upper == <<"A","B","C","D","E","I","L","N","P","R","S","T","U">>
Lower == <<"a","b","c","d","e","i","l","n","p","r","s","t","u">>

\* str.casefold on one character: upper case to lower case, and the full
\* case folding of U+017F (LATIN SMALL LETTER LONG S) to "s".
CaseFoldChar(c) ==
    IF c = "LONG_S" THEN "s"
    ELSE IF \E i \in 1..Len(Upper) : Upper[i] = c
         THEN Lower[CHOOSE i \in 1..Len(Upper) : Upper[i] = c]
         ELSE c

\* qry.casefold()
CaseFold(qry) == [i \in 1..Len(qry) |-> CaseFoldChar(qry[i])]

\* EdgeDBCloudConn._mutated_kws = ('insert', 'update', 'delete')
KwInsert == <<"i","n","s","e","r","t">>
KwUpdate == <<"u","p","d","a","t","e">>
KwDelete == <<"d","e","l","e","t","e">>
\* a keyword tuple that forgot 'delete'
MutatedKwsShort == <<KwInsert, KwUpdate>>
MutatedKws == <<KwInsert, KwUpdate, KwDelete>>

\* Python's `needle in hay` for strings: a left-to-right scan for the first
\* position at which needle matches.
RECURSIVE FindFrom(_, _, _)
FindFrom(needle, hay, i) ==
    IF i + Len(needle) - 1 > Len(hay) THEN FALSE
    ELSE IF \A j \in 1..Len(needle) : hay[i + j - 1] = needle[j] THEN TRUE
    ELSE FindFrom(needle, hay, i + 1)

StrIn(needle, hay) == FindFrom(needle, hay, 1)

\* a classifier that takes every text for a mutating one
IsQryImmutableNever(qry) == FALSE
\* a classifier that takes every text for a non-mutating one
IsQryImmutableAlways(qry) == TRUE

\* _is_qry_immutable: all(kw not in qry.casefold() for kw in _mutated_kws)
IsQryImmutable(qry) ==
    \A k \in 1..Len(MutatedKws) : ~StrIn(MutatedKws[k], CaseFold(qry))

(***************************************************************************)
(* RespJson / RespConstraint and match_func_name.  "BOGUS" stands for any  *)
(* value that is no member of the enumeration (None, a string, a member of *)
(* the other enumeration: Enum members compare by identity).               *)
(***************************************************************************)
RespJson == {"NO", "YES"}
RespConstraint == {"FREE", "NO_MORE_THAN_ONE", "EXACTLY_ONE"}
JsonInputs == RespJson \cup {"BOGUS"}
SingleInputs == RespConstraint \cup {"BOGUS"}

\* typing.assert_never raises AssertionError
AssertNever == "AssertionError"

\* a selector whose last arm was replaced by a default
MatchFuncNameDefault(jsonify, required_single) ==
    CASE jsonify = "NO" /\ required_single = "FREE" -> "query"
      [] jsonify = "NO" /\ required_single = "NO_MORE_THAN_ONE" -> "query_single"
      [] jsonify = "NO" /\ required_single = "EXACTLY_ONE" -> "query_required_single"
      [] jsonify = "YES" /\ required_single = "FREE" -> "query_json"
      [] jsonify = "YES" /\ required_single = "NO_MORE_THAN_ONE" -> "query_single_json"
      [] OTHER -> "query_required_single_json"

MatchFuncName(jsonify, required_single) ==
    CASE jsonify = "NO" /\ required_single = "FREE" -> "query"
      [] jsonify = "NO" /\ required_single = "NO_MORE_THAN_ONE" -> "query_single"
      [] jsonify = "NO" /\ required_single = "EXACTLY_ONE" -> "query_required_single"
      [] jsonify = "YES" /\ required_single = "FREE" -> "query_json"
      [] jsonify = "YES" /\ required_single = "NO_MORE_THAN_ONE" -> "query_single_json"
      [] jsonify = "YES" /\ required_single = "EXACTLY_ONE" -> "query_required_single_json"
      [] OTHER -> AssertNever


(***************************************************************************)
(* Query records (ecc.data_structures.QueryRecord without the task name):  *)
(* the requests the callers of query() submit.                             *)
(***************************************************************************)
TxtSelect == <<"S","E","L","E","C","T">>
TxtInsert == <<"I","N","S","E","R","T">>

Rec(qry, jsonify, required_single) ==
    [qry |-> qry, extra_args |-> <<>>, jsonify |-> jsonify,
     required_single |-> required_single, extra_kwargs |-> <<>>]

RecSelect == Rec(TxtSelect, "NO", "FREE")
RecSelectJson == Rec(TxtSelect, "YES", "FREE")
RecInsert == Rec(TxtInsert, "NO", "FREE")
RecBogus == Rec(TxtSelect, "BOGUS", "FREE")
QueryRecords == {RecSelect, RecSelectJson, RecInsert, RecBogus}

\* records with arguments: Python values written as their literals
RecArgs(args, kwargs) ==
    [Rec(TxtSelect, "NO", "FREE") EXCEPT !.extra_args = args, !.extra_kwargs = kwargs]
RecSelectSingle == Rec(TxtSelect, "NO", "EXACTLY_ONE")
RecArgInt == RecArgs(<<"1">>, <<>>)
RecArgTrue == RecArgs(<<"True">>, <<>>)
RecArgList == RecArgs(<<"[1]">>, <<>>)
RecKwTitleYear == RecArgs(<<>>, <<(<<"title", "'A'">>), (<<"year", "1">>)>>)
RecKwYearTitle == RecArgs(<<>>, <<(<<"year", "1">>), (<<"title", "'A'">>)>>)
KeyRecords ==
    {RecSelect, RecSelectJson, RecSelectSingle, RecArgInt, RecArgTrue, RecArgList,
     RecKwTitleYear, RecKwYearTitle}
AllRecords == QueryRecords \cup KeyRecords

\* the values hash() rejects: lists, dicts, sets
Unhashable == {"[1]"}
\* Python's == and hash() make True, 1 and 1.0 one dictionary key
PyKeyValue(v) == IF v \in {"True", "1.0"} THEN "1" ELSE v

\* hash() of the key succeeds: every argument value is hashable
Hashable(rec) ==
    /\ \A n \in 1..Len(rec.extra_args) : rec.extra_args[n] \notin Unhashable
    /\ \A n \in 1..Len(rec.extra_kwargs) : rec.extra_kwargs[n][2] \notin Unhashable

\* the memoizer's key of a call _imquery(qry, *args, jsonify=, required_single=,
\* **kwargs): the positional arguments, then the keyword items in call order,
\* each value as the dictionary key it makes
MakeKey(rec) ==
    <<rec.qry,
      [n \in 1..Len(rec.extra_args) |-> PyKeyValue(rec.extra_args[n])],
      rec.jsonify, rec.required_single,
      [n \in 1..Len(rec.extra_kwargs) |->
          <<rec.extra_kwargs[n][1], PyKeyValue(rec.extra_kwargs[n][2])>>]>>

\* EdgeDBCloudConn(ttl=...): the values a connection is constructed with
TtlValues == {-1, 0, 1}

Reqs == 1..MaxReq
Scopes == {1}

NoOut == [kind |-> "none", what |-> "", e |-> 0]
Returned(e) == [kind |-> "ok", what |-> "", e |-> e]
Raised(what, e) == [kind |-> "exc", what |-> what, e |-> e]

VARIABLES
    ttl,            \* the ttl the connection was constructed with
    evictFailed,    \* whether the installed memoizer drops a failed entry at once
    client,         \* self._client: 0 for None, else the number of the client made
    secret_key,     \* whether self._secret_key is still an attribute
    start,          \* self._start
    dbcalls,        \* self._dbcalls
    total_dbcalls,  \* self._total_dbcalls
    now,            \* the clock
    reqs,           \* the query tasks
    futs,           \* the memoizer's futures, each with its inner task
    cache,          \* the memoizer's ordered map: items [key, fut, timed, due]
    execs,          \* the invocations of the remote client's call variants
    scopes,         \* the tasks that run `async with conn`
    entered,        \* number of scopes entered so far
    fn,             \* inputs and outputs of the pure functions (SpecFn)
    creates,        \* number of calls of edgedb.create_async_client
    handles,        \* the values the client property has returned
    closeCalls,     \* number of calls of the client's own aclose()
    closers,        \* the calls of EdgeDBCloudConn.aclose
    probe,          \* the call of is_healthy
    resets,         \* number of calls of _reset_total_db_calls
    tg              \* the asyncio.TaskGroup the sibling query tasks are created in

vars == <<ttl, evictFailed, client, secret_key, start, dbcalls, total_dbcalls,
          now, reqs, futs, cache, execs, scopes, entered, fn,
          creates, handles, closeCalls, closers, probe, resets, tg>>

connVars == <<client, secret_key, dbcalls, creates, handles>>
closeVars == <<closeCalls, closers, probe>>
appVars == <<resets, tg>>

IdleReq == [rec |-> RecSelect, pc |-> "idle", via |-> "", fut |-> 0, out |-> NoOut]
OutScope == [pc |-> "out", exc |-> "None", left |-> "never", raised |-> "None",
             total0 |-> 0, db0 |-> 0, execs0 |-> 0]
NoGroup == [pc |-> "none", members |-> {}, kept |-> {}, seen |-> {},
            aborting |-> FALSE, errors |-> {}, raised |-> "None"]
NoProbe == [pc |-> "idle", outcome |-> "", result |-> ""]
FnIdle == [text |-> <<>>, jsonify |-> "NO", required_single |-> "FREE",
           class |-> "", func |-> ""]

\* EdgeDBCloudConn.__init__
ConnInit ==
    /\ client = 0
    /\ secret_key = TRUE
    /\ start = 0
    /\ dbcalls = 0
    /\ total_dbcalls = 0
    /\ now = 0
    /\ reqs = [i \in Reqs |-> IdleReq]
    /\ futs = <<>>
    /\ cache = <<>>
    /\ execs = <<>>
    /\ scopes = [s \in Scopes |-> OutScope]
    /\ entered = 0
    /\ creates = 0
    /\ handles = {}
    /\ closeCalls = 0
    /\ closers = <<>>
    /\ probe = NoProbe
    /\ resets = 0
    /\ tg = NoGroup

Init ==
    /\ ttl \in TtlValues
    /\ evictFailed \in (IF ttl > 0 THEN BOOLEAN ELSE {FALSE})
    /\ ConnInit
    /\ fn = FnIdle

\* a memoizer installed whatever the ttl
CacheInstalledAlways == TRUE
\* a memoizer never installed
CacheInstalledNever == FALSE
\* __init__: `if ttl > 0: self._imquery = alru_cache(ttl=ttl)(self._imquery)`
CacheInstalled == ttl > 0

\* wall-clock timestamps are positive: the clock's instant 0 is timestamp 1
Timestamp(t) == t + 1

(***************************************************************************)
(* The memoizer's ordered map (an OrderedDict keyed by MakeKey).           *)
(***************************************************************************)
\* alru_cache(ttl=ttl) is called without maxsize: the decorator's default
MaxSize == 128

CacheIdx(key) ==
    IF \E n \in 1..Len(cache) : cache[n].key = key
    THEN CHOOSE n \in 1..Len(cache) : cache[n].key = key
    ELSE 0

RemoveAt(seq, n) == SubSeq(seq, 1, n - 1) \o SubSeq(seq, n + 1, Len(seq))

\* OrderedDict.move_to_end(key), done on every lookup that finds the key
MoveToEnd(seq, n) == Append(RemoveAt(seq, n), seq[n])

\* OrderedDict.pop(key, None)
PopKey(seq, key) ==
    IF \E n \in 1..Len(seq) : seq[n].key = key
    THEN RemoveAt(seq, CHOOSE n \in 1..Len(seq) : seq[n].key = key)
    ELSE seq

\* the insertion of a new item, and popitem(last=False) past maxsize
Insert(seq, item) ==
    IF Len(seq) + 1 > MaxSize THEN Tail(Append(seq, item)) ELSE Append(seq, item)

(***************************************************************************)
(* query() and _query().                                                   *)
(***************************************************************************)
\* a query() that swallows the failure of the call it awaits
QueryReturnSwallow(outcome) ==
    IF outcome.kind = "exc" THEN Returned(0) ELSE outcome
\* query: `return await self._imquery(...)` / `return await self._mquery(...)`:
\* the awaited call's result is returned and its exception propagates
QueryReturn(outcome) == outcome

\* the classification and the selection of each record the callers submit
Immutable == [rec \in AllRecords |-> IsQryImmutable(rec.qry)]
Selected == [rec \in AllRecords |-> MatchFuncName(rec.jsonify, rec.required_single)]
\* a selector that gives the plain, unconstrained variant for every request
SelectorPlain(rec) == "query"
SelectorOf(rec) == Selected[rec]

\* the remote invocation qry_func(qry, *args, **kwargs) of _query
Invocation(rec, req, fut) ==
    [func |-> SelectorOf(rec), qry |-> rec.qry, args |-> rec.extra_args,
     kwargs |-> rec.extra_kwargs, req |-> req, fut |-> fut, t |-> now, st |-> "run"]

\* a counter that counts a call twice
CountCallTwice == dbcalls + 2
\* _query: `self._dbcalls += 1`
CountCall == dbcalls + 1

\* a client property that keeps the secret after it made the client
KeepSecret == TRUE
\* client: `del self._secret_key` once the client is made
DropSecret == FALSE

\* a client property that makes a client on every use
ClientIsNoneAlways == TRUE
\* client: `if self._client is None`
ClientIsNone == client = 0

\* the client property: the client is made from the stored parameters on the
\* first use and the secret is deleted; every use returns self._client
ClientProperty ==
    /\ client' = IF ClientIsNone THEN creates + 1 ELSE client
    /\ creates' = IF ClientIsNone THEN creates + 1 ELSE creates
    /\ secret_key' = IF ClientIsNone THEN DropSecret ELSE secret_key
    /\ handles' = handles \cup {client'}

\* _query up to its await: the counter, the client property, the selector,
\* the invocation
RunQuery(rec, req, fut) ==
    /\ dbcalls' = CountCall
    /\ ClientProperty
    /\ execs' = IF SelectorOf(rec) = AssertNever THEN execs
                ELSE Append(execs, Invocation(rec, req, fut))

\* tg.create_task(conn.query(record.qry, ...)): the task exists, it has not run
Launch(i, rec) ==
    /\ reqs[i].pc = "idle"
    /\ IF i = 1 THEN TRUE ELSE reqs[i - 1].pc # "idle"
    /\ reqs' = [reqs EXCEPT ![i] = [IdleReq EXCEPT !.rec = rec, !.pc = "ready"]]
    /\ UNCHANGED <<ttl, evictFailed, connVars, start, total_dbcalls, now, futs,
                   cache, execs, scopes, entered, fn, closeVars, appVars>>

\* an _mquery that clears the memoizer's map
CacheAfterMqueryCleared == <<>>
\* _mquery only awaits _query: the memoizer's map is not touched
CacheAfterMquery == cache

\* query -> _mquery -> _query, or query -> _imquery -> _query with no memoizer
QueryDirect(i) ==
    /\ reqs[i].pc = "ready"
    /\ ~(Immutable[reqs[i].rec] /\ CacheInstalled)
    /\ RunQuery(reqs[i].rec, i, 0)
    /\ reqs' = [reqs EXCEPT ![i] =
                  IF SelectorOf(reqs[i].rec) = AssertNever
                  THEN [@ EXCEPT !.pc = "done", !.via = "direct",
                                 !.out = QueryReturn(Raised(AssertNever, 0))]
                  ELSE [@ EXCEPT !.pc = "remote", !.via = "direct"]]
    /\ cache' = CacheAfterMquery
    /\ UNCHANGED <<ttl, evictFailed, start, total_dbcalls, now, futs,
                   scopes, entered, fn, closeVars, appVars>>

\* the memoizer finds no item: it creates the future and the task that will run
\* _imquery, stores the item and awaits the shielded future
QueryCachedMiss(i) ==
    /\ reqs[i].pc = "ready"
    /\ Immutable[reqs[i].rec] /\ CacheInstalled
    /\ Hashable(reqs[i].rec)
    /\ CacheIdx(MakeKey(reqs[i].rec)) = 0
    /\ futs' = Append(futs, [key |-> MakeKey(reqs[i].rec), rec |-> reqs[i].rec,
                             task |-> "ready", st |-> "pending", out |-> NoOut])
    /\ cache' = Insert(cache, [key |-> MakeKey(reqs[i].rec), fut |-> Len(futs) + 1,
                               timed |-> FALSE, due |-> 0])
    /\ reqs' = [reqs EXCEPT ![i] = [@ EXCEPT !.pc = "awaitFut", !.via = "miss",
                                             !.fut = Len(futs) + 1]]
    /\ UNCHANGED <<ttl, evictFailed, connVars, start, total_dbcalls, now, execs,
                   scopes, entered, fn, closeVars, appVars>>

\* the memoizer finds an item whose future is pending: it awaits that future
QueryCachedJoin(i) ==
    /\ reqs[i].pc = "ready"
    /\ Immutable[reqs[i].rec] /\ CacheInstalled
    /\ Hashable(reqs[i].rec)
    /\ CacheIdx(MakeKey(reqs[i].rec)) # 0
    /\ LET n == CacheIdx(MakeKey(reqs[i].rec)) IN
        /\ futs[cache[n].fut].st = "pending"
        /\ cache' = MoveToEnd(cache, n)
        /\ reqs' = [reqs EXCEPT ![i] = [@ EXCEPT !.pc = "awaitFut", !.via = "join",
                                                 !.fut = cache[n].fut]]
    /\ UNCHANGED <<ttl, evictFailed, connVars, start, total_dbcalls, now, futs,
                   execs, scopes, entered, fn, closeVars, appVars>>

\* the memoizer finds an item whose future is done: fut.result() at once
QueryCachedHit(i) ==
    /\ reqs[i].pc = "ready"
    /\ Immutable[reqs[i].rec] /\ CacheInstalled
    /\ Hashable(reqs[i].rec)
    /\ CacheIdx(MakeKey(reqs[i].rec)) # 0
    /\ LET n == CacheIdx(MakeKey(reqs[i].rec)) IN
        /\ futs[cache[n].fut].st = "done"
        /\ cache' = MoveToEnd(cache, n)
        /\ reqs' = [reqs EXCEPT ![i] = [@ EXCEPT !.pc = "done", !.via = "hit",
                                                 !.fut = cache[n].fut,
                                                 !.out = QueryReturn(futs[cache[n].fut].out)]]
    /\ UNCHANGED <<ttl, evictFailed, connVars, start, total_dbcalls, now, futs,
                   execs, scopes, entered, fn, closeVars, appVars>>

\* the memoizer cannot hash the key: TypeError leaves the call before any
\* lookup, future or task
QueryCachedKeyError(i) ==
    /\ reqs[i].pc = "ready"
    /\ Immutable[reqs[i].rec] /\ CacheInstalled
    /\ ~Hashable(reqs[i].rec)
    /\ reqs' = [reqs EXCEPT ![i] = [@ EXCEPT !.pc = "done", !.via = "keyerror",
                                             !.out = QueryReturn(Raised("TypeError", 0))]]
    /\ UNCHANGED <<ttl, evictFailed, connVars, start, total_dbcalls, now, futs,
                   cache, execs, scopes, entered, fn, closeVars, appVars>>

\* the memoizer's done callback of the inner task: the future gets the task's
\* outcome; the item at the key gets its expiry timer (call_later(ttl, pop, key)),
\* or, in a release that drops failures, is popped when the task failed
TaskDone(f, outcome) ==
    /\ futs' = [futs EXCEPT ![f] = [@ EXCEPT !.task = "done", !.st = "done",
                                             !.out = outcome]]
    /\ cache' = IF outcome.kind = "exc" /\ evictFailed
                THEN PopKey(cache, futs[f].key)
                ELSE [n \in 1..Len(cache) |->
                        IF cache[n].key = futs[f].key
                        THEN [cache[n] EXCEPT !.timed = TRUE, !.due = now + ttl]
                        ELSE cache[n]]

\* the inner task runs _imquery -> _query up to its await
InnerStart(f) ==
    /\ futs[f].task = "ready"
    /\ RunQuery(futs[f].rec, 0, f)
    /\ IF SelectorOf(futs[f].rec) = AssertNever
       THEN TaskDone(f, Raised(AssertNever, 0))
       ELSE /\ futs' = [futs EXCEPT ![f] = [@ EXCEPT !.task = "remote"]]
            /\ UNCHANGED cache
    /\ UNCHANGED <<ttl, evictFailed, start, total_dbcalls, now, reqs, scopes,
                   entered, fn, closeVars, appVars>>

RemoteOutcome(e, ok) == IF ok THEN Returned(e) ELSE Raised("NetworkError", e)

\* the remote call of a direct _query completes: query() returns or raises
DirectReturn(e, ok) ==
    /\ execs[e].st = "run"
    /\ execs[e].req # 0
    /\ execs' = [execs EXCEPT ![e] = [@ EXCEPT !.st = IF ok THEN "ok" ELSE "err"]]
    /\ reqs' = [reqs EXCEPT ![execs[e].req] =
                  [@ EXCEPT !.pc = "done", !.out = QueryReturn(RemoteOutcome(e, ok))]]
    /\ UNCHANGED <<ttl, evictFailed, connVars, start, total_dbcalls, now, futs,
                   cache, scopes, entered, fn, closeVars, appVars>>

\* the remote call of an inner task completes: the task is done
InnerReturn(e, ok) ==
    /\ execs[e].st = "run"
    /\ execs[e].fut # 0
    /\ execs' = [execs EXCEPT ![e] = [@ EXCEPT !.st = IF ok THEN "ok" ELSE "err"]]
    /\ TaskDone(execs[e].fut, RemoteOutcome(e, ok))
    /\ UNCHANGED <<ttl, evictFailed, connVars, start, total_dbcalls, now, reqs,
                   scopes, entered, fn, closeVars, appVars>>

\* `await asyncio.shield(fut)` resumes with the future's result or exception
FutDeliver(i) ==
    /\ reqs[i].pc = "awaitFut"
    /\ futs[reqs[i].fut].st = "done"
    /\ reqs' = [reqs EXCEPT ![i] = [@ EXCEPT !.pc = "done",
                                             !.out = QueryReturn(futs[reqs[i].fut].out)]]
    /\ UNCHANGED <<ttl, evictFailed, connVars, start, total_dbcalls, now, futs,
                   cache, execs, scopes, entered, fn, closeVars, appVars>>

\* an item's expiry timer fires: cache.pop(key, None)
Expire(n) ==
    /\ cache[n].timed
    /\ cache[n].due <= now
    /\ cache' = PopKey(cache, cache[n].key)
    /\ UNCHANGED <<ttl, evictFailed, connVars, start, total_dbcalls, now, reqs,
                   futs, execs, scopes, entered, fn, closeVars, appVars>>

\* time passes; a timer that is due fires before the clock moves on
Tick ==
    /\ now < MaxTime
    /\ \A n \in 1..Len(cache) : ~(cache[n].timed /\ cache[n].due <= now)
    /\ \A c \in 1..Len(closers) :
          ~(closers[c].pc = "waiting" /\ closers[c].deadline <= now)
    /\ now' = now + 1
    /\ UNCHANGED <<ttl, evictFailed, connVars, start, total_dbcalls, reqs, futs,
                   cache, execs, scopes, entered, fn, closeVars, appVars>>

(***************************************************************************)
(* The session scope: `async with conn`.                                   *)
(***************************************************************************)
\* __aenter__: the window timer starts; no counter is touched
Enter(s) ==
    /\ scopes[s].pc = "out"
    /\ entered < MaxWin
    /\ IF s = 1 THEN TRUE ELSE scopes[1].pc # "out"
    /\ start' = Timestamp(now)
    /\ entered' = entered + 1
    /\ scopes' = [scopes EXCEPT ![s] =
                    [OutScope EXCEPT !.pc = "body", !.total0 = total_dbcalls,
                                     !.db0 = dbcalls, !.execs0 = Len(execs)]]
    /\ UNCHANGED <<ttl, evictFailed, connVars, total_dbcalls, now, reqs, futs,
                   cache, execs, fn, closeVars, appVars>>

\* the scope body is left with exc_type = exc: __aexit__ runs up to its
\* `await asyncio.sleep(1e-5)`
LeaveBody(s, exc) ==
    /\ scopes[s].pc = "body"
    /\ scopes' = [scopes EXCEPT ![s] = [@ EXCEPT !.pc = "aexit", !.exc = exc]]
    /\ UNCHANGED <<ttl, evictFailed, connVars, start, total_dbcalls, now, reqs,
                   futs, cache, execs, entered, fn, closeVars, appVars>>

\* the body returns
BodyReturn(s) == LeaveBody(s, "None")
\* the body raises (a failed task group, a caller's error)
BodyRaise(s) == LeaveBody(s, "Error")
\* the task running the scope is cancelled while its body is suspended
CancelBody(s) == LeaveBody(s, "CancelledError")

\* an __aexit__ that replaces the total by the window's count
FoldReplace == dbcalls
\* __aexit__ after the sleep: `self._total_dbcalls += self._dbcalls`
Fold == total_dbcalls + dbcalls

\* an __aexit__ that leaves the window's count as it is
ResetDbCallsNot == dbcalls
\* _reset_db_calls: `self._dbcalls = 0`
ResetDbCalls == 0

\* __aexit__ resumes after the sleep: the fold, _reset_db_calls, _reset_start;
\* it returns None, so the exception it was called with goes on propagating
AexitResume(s) ==
    /\ scopes[s].pc = "aexit"
    /\ total_dbcalls' = Fold
    /\ dbcalls' = ResetDbCalls
    /\ start' = 0
    /\ scopes' = [scopes EXCEPT ![s] =
                    [OutScope EXCEPT !.left = "folded", !.raised = scopes[s].exc]]
    /\ UNCHANGED <<ttl, evictFailed, client, secret_key, creates, handles, now, reqs,
                   futs, cache, execs, entered, fn, closeVars, appVars>>

\* the task running the scope is cancelled while __aexit__ is suspended in its
\* sleep: CancelledError is raised at the await and leaves __aexit__
CancelAexit(s) ==
    /\ scopes[s].pc = "aexit"
    /\ scopes' = [scopes EXCEPT ![s] =
                    [OutScope EXCEPT !.left = "skipped", !.raised = "CancelledError"]]
    /\ UNCHANGED <<ttl, evictFailed, connVars, start, total_dbcalls, now, reqs,
                   futs, cache, execs, entered, fn, closeVars, appVars>>

Next ==
    \/ \E i \in Reqs, rec \in QueryRecords : Launch(i, rec)
    \/ \E i \in Reqs : QueryDirect(i)
    \/ \E i \in Reqs : QueryCachedMiss(i)
    \/ \E i \in Reqs : QueryCachedJoin(i)
    \/ \E i \in Reqs : QueryCachedHit(i)
    \/ \E f \in 1..Len(futs) : InnerStart(f)
    \/ \E e \in 1..Len(execs), ok \in BOOLEAN : DirectReturn(e, ok)
    \/ \E e \in 1..Len(execs), ok \in BOOLEAN : InnerReturn(e, ok)
    \/ \E i \in Reqs : FutDeliver(i)
    \/ \E n \in 1..Len(cache) : Expire(n)
    \/ Tick
    \/ \E s \in Scopes : Enter(s)
    \/ \E s \in Scopes : BodyReturn(s)
    \/ \E s \in Scopes : BodyRaise(s)
    \/ \E s \in Scopes : CancelBody(s)
    \/ \E s \in Scopes : AexitResume(s)
    \/ \E s \in Scopes : CancelAexit(s)

Spec == Init /\ [][Next]_vars

(***************************************************************************)
(* The pure functions on their own: the inputs are drawn in the initial    *)
(* state, the actions apply _is_qry_immutable and match_func_name.         *)
(***************************************************************************)
PadChars == {"x", "E"}
Pads == UNION {[1..n -> PadChars] : n \in 0..MaxPad}
Words ==
    { <<>>,
      <<"i","n","s","e","r","t">>, <<"I","N","S","E","R","T">>,
      <<"I","n","s","e","r","t">>, <<"i","n","LONG_S","e","r","t">>,
      <<"u","p","d","a","t","e">>, <<"U","p","D","a","T","e">>,
      <<"d","e","l","e","t","e">>, <<"D","E","L","E","T","E">>,
      <<"s","e","l","e","c","t">>, <<"S","E","L","E","C","T">>,
      <<"i","n","s","e","c","t">>, <<"u","p","d","a","t">>,
      <<"e","l","e","t","e">>, <<"i","n"," ","s","e","r","t">> }
Texts == {p \o w \o q : p \in Pads, w \in Words, q \in Pads}

InitFn ==
    /\ ttl = 0
    /\ evictFailed = FALSE
    /\ ConnInit
    /\ fn \in [text : Texts, jsonify : JsonInputs, required_single : SingleInputs,
               class : {""}, func : {""}]

\* classify(text): the caller of _is_qry_immutable in query()
Classify ==
    /\ fn.class = ""
    /\ fn' = [fn EXCEPT !.class = IF IsQryImmutable(fn.text) THEN "NonMutating"
                                  ELSE "Mutating"]
    /\ UNCHANGED <<ttl, evictFailed, connVars, start, total_dbcalls, now, reqs,
                   futs, cache, execs, scopes, entered, closeVars, appVars>>

\* select(format, cardinality): match_func_name
Select ==
    /\ fn.func = ""
    /\ fn' = [fn EXCEPT !.func = MatchFuncName(fn.jsonify, fn.required_single)]
    /\ UNCHANGED <<ttl, evictFailed, connVars, start, total_dbcalls, now, reqs,
                   futs, cache, execs, scopes, entered, closeVars, appVars>>

NextFn == Classify \/ Select

SpecFn == InitFn /\ [][NextFn]_vars

(***************************************************************************)
(* The connection's lifecycle: the client property, aclose, is_healthy.    *)
(***************************************************************************)
MaxClose == 2
\* aclose(timeout): the timeouts the callers pass
CloseTimeouts == {0, 1}

\* a use of the client property by a caller (`self.conn.client`)
Handle ==
    /\ ClientProperty
    /\ UNCHANGED <<ttl, evictFailed, dbcalls, start, total_dbcalls, now, reqs, futs,
                   cache, execs, scopes, entered, fn, closeVars, appVars>>

\* an aclose that waits for the shutdown without a bound
CloseDeadlineNone(timeout) == now + MaxTime + 1
\* aclose: asyncio.wait_for(..., timeout): the timeout is due `timeout` from now
CloseDeadline(timeout) == now + timeout

\* aclose up to its await: self.client (the property), the client's aclose()
\* is called, wait_for starts waiting for it
Close(timeout) ==
    /\ Len(closers) < MaxClose
    /\ ClientProperty
    /\ closeCalls' = closeCalls + 1
    /\ closers' = Append(closers, [pc |-> "waiting", t0 |-> now, timeout |-> timeout,
                                    deadline |-> CloseDeadline(timeout),
                                    shut |-> "running", at |-> 0])
    /\ UNCHANGED <<ttl, evictFailed, dbcalls, start, total_dbcalls, now, reqs, futs,
                   cache, execs, scopes, entered, fn, probe, appVars>>

\* the client's shutdown completes while wait_for waits: aclose returns.  A
\* wait_for with timeout <= 0 gives the shutdown no turn to run
ShutdownDone(c) ==
    /\ closers[c].pc = "waiting"
    /\ closers[c].timeout > 0
    /\ now <= closers[c].deadline
    /\ closers' = [closers EXCEPT ![c] = [@ EXCEPT !.pc = "returned", !.shut = "done",
                                                   !.at = now]]
    /\ UNCHANGED <<ttl, evictFailed, connVars, start, total_dbcalls, now, reqs, futs,
                   cache, execs, scopes, entered, fn, closeCalls, probe, appVars>>

\* wait_for's timeout is due: it cancels the shutdown, which ends at once, and
\* raises TimeoutError out of aclose
CloseTimeout(c) ==
    /\ closers[c].pc = "waiting"
    /\ closers[c].deadline <= now
    /\ closers' = [closers EXCEPT ![c] = [@ EXCEPT !.pc = "TimeoutError",
                                                   !.shut = "cancelled", !.at = now]]
    /\ UNCHANGED <<ttl, evictFailed, connVars, start, total_dbcalls, now, reqs, futs,
                   cache, execs, scopes, entered, fn, closeCalls, probe, appVars>>

\* what httpx.get(url, follow_redirects=True, verify=False, timeout=30) ends
\* with: the status of the final response, or the exception it raises
HttpStatuses == {"200", "404"}
\* subclasses of httpx.HTTPError: connection refused, DNS and TLS failures
\* (ConnectError), timeouts (TimeoutException)
HttpErrors == {"ConnectError", "TimeoutException"}
\* exceptions of httpx.get that are no httpx.HTTPError: a host or port value
\* that makes no valid URL
OtherErrors == {"InvalidURL"}
ProbeOutcomes == HttpStatuses \cup HttpErrors \cup OtherErrors

\* is_healthy: status_code == 200, False on httpx.HTTPError, anything else
\* propagates
IsHealthy(outcome) ==
    IF outcome \in HttpStatuses THEN (IF outcome = "200" THEN "True" ELSE "False")
    ELSE IF outcome \in HttpErrors THEN "False"
    ELSE outcome

\* a read of the is_healthy property (a blocking call: one step)
Probe(outcome) ==
    /\ probe' = [pc |-> "done", outcome |-> outcome, result |-> IsHealthy(outcome)]
    /\ UNCHANGED <<ttl, evictFailed, connVars, start, total_dbcalls, now, reqs, futs,
                   cache, execs, scopes, entered, fn, closeCalls, closers, appVars>>

MaxReset == 1

\* the `Clear Conn` button: on_click=conn._reset_total_db_calls
ResetTotal ==
    /\ resets < MaxReset
    /\ total_dbcalls' = 0
    /\ resets' = resets + 1
    /\ UNCHANGED <<ttl, evictFailed, connVars, start, now, reqs, futs, cache, execs,
                   scopes, entered, fn, closeVars, tg>>

InitLife ==
    /\ ttl = 0
    /\ evictFailed = FALSE
    /\ ConnInit
    /\ fn = FnIdle

NextLife ==
    \/ Handle
    \/ \E i \in Reqs : Launch(i, RecSelect)
    \/ \E i \in Reqs : QueryDirect(i)
    \/ \E e \in 1..Len(execs), ok \in BOOLEAN : DirectReturn(e, ok)
    \/ \E s \in Scopes : Enter(s)
    \/ \E s \in Scopes : BodyReturn(s)
    \/ \E s \in Scopes : AexitResume(s)
    \/ \E timeout \in CloseTimeouts : Close(timeout)
    \/ \E c \in 1..Len(closers) : ShutdownDone(c)
    \/ \E c \in 1..Len(closers) : CloseTimeout(c)
    \/ \E outcome \in ProbeOutcomes : Probe(outcome)
    \/ Tick

SpecLife == InitLife /\ [][NextLife]_vars

(***************************************************************************)
(* The callers' task group: `async with asyncio.TaskGroup() as tg` around  *)
(* tg.create_task(conn.query(...)).  The group's own code is the standard  *)
(* library's: a task that fails makes the group cancel the others, the     *)
(* exit waits for every task of the group, then raises the ExceptionGroup  *)
(* of the collected errors.                                                *)
(***************************************************************************)
GroupRecords == {RecSelect, RecInsert, RecBogus}

\* a task made with asyncio.create_task, outside the group
GroupAddNot(members, i) == members
\* `tg.create_task(...)`: the task belongs to the group
GroupAdd(members, i) == members \cup {i}

\* a caller that keeps no reference to the task
KeepNot(kept, i) == kept
\* `tasks.add(task)` / `self.tasks.append(task)`: the caller keeps the task
Keep(kept, i) == kept \cup {i}

GroupEnter ==
    /\ tg.pc = "none"
    /\ tg' = [tg EXCEPT !.pc = "body"]
    /\ UNCHANGED <<ttl, evictFailed, connVars, start, total_dbcalls, now, reqs, futs,
                   cache, execs, scopes, entered, fn, closeVars, resets>>

GroupLaunch(i, rec) ==
    /\ tg.pc = "body"
    /\ ~tg.aborting
    /\ reqs[i].pc = "idle"
    /\ IF i = 1 THEN TRUE ELSE reqs[i - 1].pc # "idle"
    /\ reqs' = [reqs EXCEPT ![i] = [IdleReq EXCEPT !.rec = rec, !.pc = "ready"]]
    /\ tg' = [tg EXCEPT !.members = GroupAdd(tg.members, i),
                        !.kept = Keep(tg.kept, i)]
    /\ UNCHANGED <<ttl, evictFailed, connVars, start, total_dbcalls, now, futs,
                   cache, execs, scopes, entered, fn, closeVars, resets>>

\* the body of the `async with` ends, or is interrupted by the cancellation
\* the group requests of its parent task when a task failed
GroupBodyEnd ==
    /\ tg.pc = "body"
    /\ tg' = [tg EXCEPT !.pc = "exiting"]
    /\ UNCHANGED <<ttl, evictFailed, connVars, start, total_dbcalls, now, reqs, futs,
                   cache, execs, scopes, entered, fn, closeVars, resets>>

Unfinished(i) == reqs[i].pc \in {"ready", "remote", "awaitFut"}

\* task.cancel() on the tasks in `who`: a task that has not run never runs; a
\* task awaiting the remote call of _query is cancelled with that call; a task
\* awaiting the memoizer's shielded future is cancelled alone, the future and
\* the inner task that feeds it are left as they are
CancelTasks(who) ==
    /\ reqs' = [j \in Reqs |->
                  IF j \in who /\ Unfinished(j)
                  THEN [reqs[j] EXCEPT !.pc = "done",
                                       !.out = Raised("CancelledError", 0)]
                  ELSE reqs[j]]
    /\ execs' = [e \in 1..Len(execs) |->
                  IF /\ execs[e].st = "run"
                     /\ execs[e].req \in who
                  THEN [execs[e] EXCEPT !.st = "cancelled"]
                  ELSE execs[e]]

Failed(i) ==
    /\ reqs[i].pc = "done"
    /\ reqs[i].out.kind = "exc"
    /\ reqs[i].out.what # "CancelledError"

\* the group's done callback of a task: a cancelled or successful task is only
\* struck off; a failed one has its error collected and, the first time, makes
\* the group cancel every task it still holds
OnTaskDone(i) ==
    /\ tg.pc \in {"body", "exiting"}
    /\ i \in tg.members \ tg.seen
    /\ reqs[i].pc = "done"
    /\ IF Failed(i)
       THEN /\ tg' = [tg EXCEPT !.seen = @ \cup {i},
                                !.errors = @ \cup {[req |-> i, what |-> reqs[i].out.what,
                                                    e |-> reqs[i].out.e]},
                                !.aborting = TRUE]
            /\ IF tg.aborting
               THEN UNCHANGED <<reqs, execs>>
               ELSE CancelTasks(tg.members \ {i})
       ELSE /\ tg' = [tg EXCEPT !.seen = @ \cup {i}]
            /\ UNCHANGED <<reqs, execs>>
    /\ UNCHANGED <<ttl, evictFailed, client, secret_key, dbcalls, creates, handles,
                   start, total_dbcalls, now, futs, cache, scopes, entered, fn,
                   closeVars, resets>>

\* the group's __aexit__ returns once it holds no task: it raises the
\* ExceptionGroup of the collected errors, if any
GroupLeave ==
    /\ tg.pc = "exiting"
    /\ tg.members \subseteq tg.seen
    /\ tg' = [tg EXCEPT !.pc = "left",
                        !.raised = IF tg.errors = {} THEN "None" ELSE "ExceptionGroup"]
    /\ UNCHANGED <<ttl, evictFailed, connVars, start, total_dbcalls, now, reqs, futs,
                   cache, execs, scopes, entered, fn, closeVars, resets>>

InitGroup ==
    /\ ttl \in {0, 1}
    /\ evictFailed \in (IF ttl > 0 THEN BOOLEAN ELSE {FALSE})
    /\ ConnInit
    /\ fn = FnIdle

NextGroup ==
    \/ GroupEnter
    \/ \E i \in Reqs, rec \in GroupRecords : GroupLaunch(i, rec)
    \/ GroupBodyEnd
    \/ \E i \in Reqs : QueryDirect(i)
    \/ \E i \in Reqs : QueryCachedMiss(i)
    \/ \E i \in Reqs : QueryCachedJoin(i)
    \/ \E i \in Reqs : QueryCachedHit(i)
    \/ \E f \in 1..Len(futs) : InnerStart(f)
    \/ \E e \in 1..Len(execs), ok \in BOOLEAN : DirectReturn(e, ok)
    \/ \E e \in 1..Len(execs), ok \in BOOLEAN : InnerReturn(e, ok)
    \/ \E i \in Reqs : FutDeliver(i)
    \/ \E i \in Reqs : OnTaskDone(i)
    \/ GroupLeave

SpecGroup == InitGroup /\ [][NextGroup]_vars

(***************************************************************************)
(* Two session scopes on one connection, opened by different tasks, may    *)
(* overlap: queries, inner tasks and the two exits in every order.         *)
(***************************************************************************)
ScopePair == {1, 2}

InitAcct ==
    /\ ttl \in {0, 1}
    /\ evictFailed = FALSE
    /\ client = 0
    /\ secret_key = TRUE
    /\ start = 0
    /\ dbcalls = 0
    /\ total_dbcalls = 0
    /\ now = 0
    /\ reqs = [i \in Reqs |-> IdleReq]
    /\ futs = <<>>
    /\ cache = <<>>
    /\ execs = <<>>
    /\ scopes = [s \in ScopePair |-> OutScope]
    /\ entered = 0
    /\ creates = 0
    /\ handles = {}
    /\ closeCalls = 0
    /\ closers = <<>>
    /\ probe = NoProbe
    /\ resets = 0
    /\ tg = NoGroup
    /\ fn = FnIdle

NextAcct ==
    \/ \E i \in Reqs, rec \in {RecSelect, RecInsert, RecBogus} : Launch(i, rec)
    \/ \E i \in Reqs : QueryDirect(i)
    \/ \E i \in Reqs : QueryCachedMiss(i)
    \/ \E i \in Reqs : QueryCachedJoin(i)
    \/ \E i \in Reqs : QueryCachedHit(i)
    \/ \E f \in 1..Len(futs) : InnerStart(f)
    \/ \E e \in 1..Len(execs), ok \in BOOLEAN : DirectReturn(e, ok)
    \/ \E e \in 1..Len(execs), ok \in BOOLEAN : InnerReturn(e, ok)
    \/ \E i \in Reqs : FutDeliver(i)
    \/ \E s \in ScopePair : Enter(s)
    \/ \E s \in ScopePair : BodyReturn(s)
    \/ \E s \in ScopePair : BodyRaise(s)
    \/ \E s \in ScopePair : AexitResume(s)
    \/ \E s \in ScopePair : CancelAexit(s)

SpecAcct == InitAcct /\ [][NextAcct]_vars

(***************************************************************************)
(* One run of the application: the task `top` of run's group enters the    *)
(* session scope, creates the query task in it and leaves the scope at     *)
(* once (_create_task_from_form); __aexit__ sleeps while the query task    *)
(* runs.  The event loop is first in, first out: a task made ready before  *)
(* the sleep's timer takes its first step before __aexit__ resumes, and    *)
(* so does the inner task that step creates.  `top` is a task of the       *)
(* group: when the group aborts, it is cancelled where it is suspended.    *)
(***************************************************************************)
FormRecords == {RecSelect, RecInsert, RecBogus}

\* `top` is suspended in the sleep of __aexit__, or past it
TopSuspended == scopes[1].pc # "body"

\* every task made ready has taken its first step
RanFirst ==
    /\ \A i \in Reqs : reqs[i].pc # "ready"
    /\ \A f \in 1..Len(futs) : futs[f].task # "ready"

\* `async with conn:` in _create_task_from_form
FormEnter ==
    /\ tg.pc = "body"
    /\ entered = 0
    /\ Enter(1)

\* tg.create_task(conn.query(...)) in the scope
FormLaunch(i, rec) ==
    /\ scopes[1].pc = "body"
    /\ GroupLaunch(i, rec)

\* the scope is left right after: __aexit__ up to its sleep
FormLeave ==
    /\ reqs[1].pc # "idle"
    /\ BodyReturn(1)

\* the sleep of __aexit__ is over
FormResume ==
    /\ ~tg.aborting
    /\ RanFirst
    /\ AexitResume(1)

\* the group aborted while `top` slept in __aexit__: CancelledError at the await
FormCancelled ==
    /\ tg.aborting
    /\ CancelAexit(1)

\* `top` returns
FormDone ==
    /\ entered > 0
    /\ scopes[1].pc = "out"
    /\ GroupBodyEnd

InitForm ==
    /\ ttl \in {0, 1}
    /\ evictFailed \in (IF ttl > 0 THEN BOOLEAN ELSE {FALSE})
    /\ ConnInit
    /\ fn = FnIdle

NextForm ==
    \/ GroupEnter
    \/ FormEnter
    \/ \E i \in Reqs, rec \in FormRecords : FormLaunch(i, rec)
    \/ FormLeave
    \/ \E i \in Reqs : TopSuspended /\ QueryDirect(i)
    \/ \E i \in Reqs : TopSuspended /\ QueryCachedMiss(i)
    \/ \E i \in Reqs : TopSuspended /\ QueryCachedJoin(i)
    \/ \E i \in Reqs : TopSuspended /\ QueryCachedHit(i)
    \/ \E f \in 1..Len(futs) : InnerStart(f)
    \/ \E e \in 1..Len(execs), ok \in BOOLEAN : DirectReturn(e, ok)
    \/ \E e \in 1..Len(execs), ok \in BOOLEAN : InnerReturn(e, ok)
    \/ \E i \in Reqs : FutDeliver(i)
    \/ \E i \in Reqs : TopSuspended /\ OnTaskDone(i)
    \/ FormResume
    \/ FormCancelled
    \/ FormDone
    \/ GroupLeave

SpecForm == InitForm /\ [][NextForm]_vars

(***************************************************************************)
(* A connection in use: MaxSize distinct non-mutating queries have been    *)
(* executed and cached at instant 0, in earlier windows, the first of them *)
(* RecSelect; the memoizer's map is full.  Every entry is younger than     *)
(* ttl for as long as the clock stays at 0.                                *)
(***************************************************************************)
WarmRec(n) == IF n = 1 THEN RecSelect ELSE RecArgs(<<ToString(n)>>, <<>>)

WarmRecords == {RecSelect, RecSelectJson, RecInsert}

InitWarm ==
    /\ ttl = 1
    /\ evictFailed \in BOOLEAN
    /\ client = 1
    /\ secret_key = DropSecret
    /\ creates = 1
    /\ handles = {1}
    /\ start = 0
    /\ dbcalls = 0
    /\ total_dbcalls = MaxSize
    /\ now = 0
    /\ reqs = [i \in Reqs |-> IdleReq]
    /\ futs = [n \in 1..MaxSize |->
                 [key |-> MakeKey(WarmRec(n)), rec |-> WarmRec(n), task |-> "done",
                  st |-> "done", out |-> Returned(n)]]
    /\ cache = [n \in 1..MaxSize |->
                  [key |-> MakeKey(WarmRec(n)), fut |-> n, timed |-> TRUE,
                   due |-> ttl]]
    /\ execs = [n \in 1..MaxSize |->
                  [func |-> MatchFuncName(WarmRec(n).jsonify, WarmRec(n).required_single),
                   qry |-> WarmRec(n).qry, args |-> WarmRec(n).extra_args,
                   kwargs |-> WarmRec(n).extra_kwargs, req |-> 0, fut |-> n,
                   t |-> 0, st |-> "ok"]]
    /\ scopes = [s \in Scopes |-> OutScope]
    /\ entered = 0
    /\ closeCalls = 0
    /\ closers = <<>>
    /\ probe = NoProbe
    /\ resets = 0
    /\ tg = NoGroup
    /\ fn = FnIdle

NextWarm ==
    \/ \E i \in Reqs, rec \in WarmRecords : Launch(i, rec)
    \/ \E i \in Reqs : QueryDirect(i)
    \/ \E i \in Reqs : QueryCachedMiss(i)
    \/ \E i \in Reqs : QueryCachedJoin(i)
    \/ \E i \in Reqs : QueryCachedHit(i)
    \/ \E f \in 1..Len(futs) : InnerStart(f)
    \/ \E e \in 1..Len(execs), ok \in BOOLEAN : DirectReturn(e, ok)
    \/ \E e \in 1..Len(execs), ok \in BOOLEAN : InnerReturn(e, ok)
    \/ \E i \in Reqs : FutDeliver(i)
    \/ \E s \in Scopes : Enter(s)
    \/ \E s \in Scopes : BodyReturn(s)
    \/ \E s \in Scopes : AexitResume(s)

SpecWarm == InitWarm /\ [][NextWarm]_vars

(***************************************************************************)
(* The counters over the whole life of a connection: windows that end      *)
(* normally or with an exception, direct queries, the reset button, close. *)
(***************************************************************************)
InitTotal ==
    /\ ttl = 0
    /\ evictFailed = FALSE
    /\ ConnInit
    /\ fn = FnIdle

NextTotal ==
    \/ \E i \in Reqs : \E rec \in {RecSelect, RecBogus} : Launch(i, rec)
    \/ \E i \in Reqs : QueryDirect(i)
    \/ \E e \in 1..Len(execs), ok \in BOOLEAN : DirectReturn(e, ok)
    \/ \E s \in Scopes : Enter(s)
    \/ \E s \in Scopes : BodyReturn(s)
    \/ \E s \in Scopes : BodyRaise(s)
    \/ \E s \in Scopes : AexitResume(s)
    \/ \E timeout \in CloseTimeouts : Close(timeout)
    \/ \E c \in 1..Len(closers) : ShutdownDone(c)
    \/ \E c \in 1..Len(closers) : CloseTimeout(c)
    \/ ResetTotal
    \/ Tick

SpecTotal == InitTotal /\ [][NextTotal]_vars

(***************************************************************************)
(* The memoizer's key on its own: requests with arguments, on a connection *)
(* with and without a memoizer, outside any session scope.                 *)
(***************************************************************************)
InitKey ==
    /\ ttl \in {0, 1}
    /\ evictFailed \in (IF ttl > 0 THEN BOOLEAN ELSE {FALSE})
    /\ ConnInit
    /\ fn = FnIdle

NextKey ==
    \/ \E i \in Reqs, rec \in KeyRecords : Launch(i, rec)
    \/ \E i \in Reqs : QueryDirect(i)
    \/ \E i \in Reqs : QueryCachedKeyError(i)
    \/ \E i \in Reqs : QueryCachedMiss(i)
    \/ \E i \in Reqs : QueryCachedJoin(i)
    \/ \E i \in Reqs : QueryCachedHit(i)
    \/ \E f \in 1..Len(futs) : InnerStart(f)
    \/ \E e \in 1..Len(execs), ok \in BOOLEAN : DirectReturn(e, ok)
    \/ \E e \in 1..Len(execs), ok \in BOOLEAN : InnerReturn(e, ok)
    \/ \E i \in Reqs : FutDeliver(i)
    \/ \E n \in 1..Len(cache) : Expire(n)
    \/ Tick

SpecKey == InitKey /\ [][NextKey]_vars

(***************************************************************************)
(* Vocabulary of the properties.                                           *)
(***************************************************************************)
Started(i) == reqs[i].pc \notin {"idle", "ready"}
Done(i) == reqs[i].pc = "done"
\* the request awaits an execution that has not completed
InFlight(i) ==
    \/ reqs[i].pc = "remote"
    \/ reqs[i].pc = "awaitFut" /\ futs[reqs[i].fut].st = "pending"
Valid(rec) == SelectorOf(rec) # AssertNever
ExecsOfReq(i) == {e \in 1..Len(execs) : execs[e].req = i}
ExecsOfFut(f) == {e \in 1..Len(execs) : execs[e].fut = f}
SameCall(e1, e2) ==
    /\ execs[e1].func = execs[e2].func
    /\ execs[e1].qry = execs[e2].qry
    /\ execs[e1].args = execs[e2].args
    /\ execs[e1].kwargs = execs[e2].kwargs
Attached(i) == reqs[i].via \in {"miss", "join"}
\* the keyword kw stands at position p of the case-folded text
KeywordAt(text, kw, p) ==
    /\ p + Len(kw) - 1 <= Len(text)
    /\ \A j \in 1..Len(kw) : CaseFoldChar(text[p + j - 1]) = kw[j]
\* the named arguments as the mapping name -> value they denote
KwMap(rec) == {rec.extra_kwargs[n] : n \in 1..Len(rec.extra_kwargs)}
\* two requests have identical content
SameContent(r1, r2) ==
    /\ r1.qry = r2.qry
    /\ r1.extra_args = r2.extra_args
    /\ KwMap(r1) = KwMap(r2)
    /\ r1.jsonify = r2.jsonify
    /\ r1.required_single = r2.required_single
\* the text holds "insert", "update" or "delete" somewhere, in any case
HasKeyword(text) ==
    \E kw \in {KwInsert, KwUpdate, KwDelete}, p \in 1..Len(text) :
        KeywordAt(text, kw, p)

(***************************************************************************)
(* C1  Single-flight.  With ttl > 0, two identical non-mutating queries    *)
(* that await a pending execution at the same time await one future, for   *)
(* which at most one remote call is made and none is made by the callers   *)
(* themselves; once both are done they hold the same outcome, that of the  *)
(* one execution (exactly one remote call when the selector accepts the    *)
(* request).                                                               *)
(***************************************************************************)
C1_SingleFlight ==
    ttl > 0 =>
      \A i, j \in Reqs :
        (i # j /\ reqs[i].rec = reqs[j].rec /\ Immutable[reqs[i].rec]) =>
          /\ (InFlight(i) /\ InFlight(j)) =>
                /\ reqs[i].fut # 0
                /\ reqs[i].fut = reqs[j].fut
                /\ Cardinality(ExecsOfFut(reqs[i].fut)) <= 1
                /\ ExecsOfReq(i) \cup ExecsOfReq(j) = {}
          /\ (Done(i) /\ Done(j) /\ Attached(i) /\ Attached(j)
                /\ reqs[i].fut = reqs[j].fut) =>
                /\ reqs[i].out = reqs[j].out
                /\ reqs[i].out = futs[reqs[i].fut].out
                /\ Valid(reqs[i].rec) =>
                      /\ ExecsOfFut(reqs[i].fut) = {reqs[i].out.e}
                      /\ ExecsOfReq(i) \cup ExecsOfReq(j) = {}

C1_Witness ==
    /\ ttl > 0
    /\ \E i, j \in Reqs :
        /\ i # j
        /\ reqs[i].rec = RecSelect /\ reqs[j].rec = RecSelect
        /\ reqs[i].via = "miss" /\ reqs[j].via = "join"
        /\ Done(i) /\ Done(j)
        /\ reqs[i].out.kind = "ok" /\ reqs[j].out = reqs[i].out
        /\ Len(execs) = 1

C3_NoCacheOneCallEach ==
    ttl <= 0 =>
      /\ Len(futs) = 0 /\ Len(cache) = 0
      /\ \A i \in Reqs :
            Started(i) =>
              /\ reqs[i].via = "direct"
              /\ Valid(reqs[i].rec) => Cardinality(ExecsOfReq(i)) = 1
      /\ Len(execs) = Cardinality({i \in Reqs : Started(i) /\ Valid(reqs[i].rec)})
      /\ ((\A i \in Reqs : Started(i) => Valid(reqs[i].rec)) /\ dbcalls = 0) =>
            total_dbcalls = Len(execs)

C3_Witness ==
    /\ ttl <= 0
    /\ \A i \in Reqs : reqs[i].rec = RecSelect /\ Done(i)
    /\ Len(execs) = MaxReq
    /\ scopes[1].left = "folded"
    /\ dbcalls = 0
    /\ total_dbcalls = MaxReq

(***************************************************************************)
(* C4  A mutating query never goes through the memoizer, whatever the ttl: *)
(* it runs _query directly, makes one remote call of its own when the      *)
(* selector accepts it, and no future and no cache item is ever created    *)
(* for a mutating text.                                                    *)
(***************************************************************************)
C4_MutatingBypassesCache ==
    /\ \A i \in Reqs :
          (Started(i) /\ HasKeyword(reqs[i].rec.qry)) =>
            /\ reqs[i].via = "direct"
            /\ reqs[i].fut = 0
            /\ Valid(reqs[i].rec) => Cardinality(ExecsOfReq(i)) = 1
    /\ \A f \in 1..Len(futs) : ~HasKeyword(futs[f].rec.qry)
    /\ \A n \in 1..Len(cache) : ~HasKeyword(cache[n].key[1])

C4_Witness ==
    /\ ttl > 0
    /\ \A i \in Reqs : reqs[i].rec = RecInsert /\ Done(i)
    /\ Len(execs) = MaxReq
    /\ Len(futs) = 0

C6_BookkeepingOnEveryExit ==
    [][\A s \in Scopes :
         (scopes[s].pc = "aexit" /\ scopes'[s].pc = "out") =>
           /\ total_dbcalls' = total_dbcalls + dbcalls
           /\ dbcalls' = 0
           /\ scopes[s].exc # "None" => scopes'[s].raised # "None"]_vars

(***************************************************************************)
(* C7  classify(text) is Mutating exactly when one of "insert", "update",  *)
(* "delete" occurs at some position of the case-folded text.               *)
(***************************************************************************)
C7_ClassifyIffKeyword ==
    fn.class # "" =>
      /\ fn.class \in {"Mutating", "NonMutating"}
      /\ fn.class = "Mutating" <=> HasKeyword(fn.text)

C7_Witness ==
    /\ fn.class = "Mutating"
    /\ fn.text = <<"x", "U", "p", "D", "a", "T", "e", "E">>

(***************************************************************************)
(* C8  select(format, cardinality) yields one of the six call variants on  *)
(* the six combinations of the enumerations, a different one for each, and *)
(* fails with assert_never's error on every other input.                   *)
(***************************************************************************)
CallVariants ==
    {"query", "query_single", "query_required_single",
     "query_json", "query_single_json", "query_required_single_json"}

C8_SelectorTotalInjective ==
    fn.func # "" =>
      IF fn.jsonify \in RespJson /\ fn.required_single \in RespConstraint
      THEN /\ fn.func \in CallVariants
           /\ \A j \in RespJson, c \in RespConstraint :
                 MatchFuncName(j, c) = fn.func =>
                   (j = fn.jsonify /\ c = fn.required_single)
      ELSE fn.func = AssertNever

C8_Witness ==
    /\ fn.func = AssertNever
    /\ fn.jsonify = "YES"
    /\ fn.required_single = "BOGUS"

(***************************************************************************)
(* C9  The recorded calls (per-window count plus cumulative total) equal   *)
(* the number of remote call-variant invocations made.                     *)
(***************************************************************************)
C9_RecordedEqualsInvoked == dbcalls + total_dbcalls = Len(execs)

(***************************************************************************)
(* C10  With ttl > 0, when the execution of a future failed, every request *)
(* that created or joined that future while it was pending gets exactly    *)
(* that failure, at most one remote call was made for the future, and the  *)
(* requests made no remote call of their own.                              *)
(***************************************************************************)
C10_FailureShared ==
    ttl > 0 =>
      \A i \in Reqs :
        (Attached(i) /\ futs[reqs[i].fut].st = "done"
           /\ futs[reqs[i].fut].out.kind = "exc") =>
          /\ reqs[i].pc \in {"awaitFut", "done"}
          /\ Done(i) => reqs[i].out = futs[reqs[i].fut].out
          /\ Cardinality(ExecsOfFut(reqs[i].fut)) <= 1
          /\ ExecsOfReq(i) = {}

C10_Witness ==
    /\ ttl > 0
    /\ \E i, j \in Reqs :
        /\ i # j
        /\ reqs[i].via = "miss" /\ reqs[j].via = "join"
        /\ reqs[i].fut = reqs[j].fut
        /\ Done(i) /\ Done(j)
        /\ reqs[i].out = Raised("NetworkError", 1)
        /\ reqs[j].out = reqs[i].out
        /\ Len(execs) = 1

(***************************************************************************)
(* C11  Expiry: a request is served from a stored entry only while the     *)
(* entry's age (now minus the time its result was stored) is below ttl: no *)
(* request gets a stored value of age ttl or more.                         *)
(* The entry's expiry is due at the time its result was stored plus ttl,   *)
(* so the age is below ttl exactly when now is before the due time.        *)
(***************************************************************************)
C11_ServedOnlyFresh ==
    [][\A i \in Reqs :
         (reqs[i].pc = "ready" /\ reqs'[i].via = "hit"
            /\ reqs'[i].out.kind = "ok") =>
           now < cache[CacheIdx(MakeKey(reqs[i].rec))].due]_vars

(***************************************************************************)
(* C12  With ttl > 0, a non-mutating request with an argument value that   *)
(* is not hashable ends with the key error raised to the caller of query:  *)
(* it makes no remote call, no future and no cache item exist for it, and  *)
(* the recorded calls are those of the other requests only.                *)
(***************************************************************************)
C12_UnhashableRaises ==
    ttl > 0 =>
      /\ \A i \in Reqs :
            (Started(i) /\ ~HasKeyword(reqs[i].rec.qry)
               /\ reqs[i].rec.extra_args = <<"[1]">>) =>
              /\ Done(i)
              /\ reqs[i].out = Raised("TypeError", 0)
              /\ reqs[i].fut = 0
              /\ ExecsOfReq(i) = {}
      /\ \A f \in 1..Len(futs) : futs[f].rec.extra_args # <<"[1]">>
      /\ \A n \in 1..Len(cache) : cache[n].key[2] # <<"[1]">>
      /\ \A e \in 1..Len(execs) : execs[e].args # <<"[1]">>
      /\ dbcalls + total_dbcalls =
            Cardinality({f \in 1..Len(futs) : futs[f].task # "ready"})

C12_Witness ==
    /\ ttl > 0
    /\ \A i \in Reqs : reqs[i].rec = RecArgList /\ Done(i)
                          /\ reqs[i].out = Raised("TypeError", 0)
    /\ dbcalls = 0
    /\ Len(execs) = 0
    /\ Len(cache) = 0

(***************************************************************************)
(* C13  Cache-key determinism: with ttl > 0, two remote calls made for     *)
(* non-mutating requests of identical content (same text, same positional  *)
(* arguments, same name -> value mapping of the named arguments in any     *)
(* order, same format and cardinality) are at least ttl apart, unless the  *)
(* first one failed and the memoizer drops failures.                       *)
(***************************************************************************)
C13_SameContentOneCall ==
    ttl > 0 =>
      \A e1, e2 \in 1..Len(execs) :
        (e1 < e2 /\ execs[e1].fut # 0 /\ execs[e2].fut # 0
           /\ SameContent(futs[execs[e1].fut].rec, futs[execs[e2].fut].rec)
           /\ ~(evictFailed /\ execs[e1].st = "err")) =>
          execs[e2].t >= execs[e1].t + ttl

(***************************************************************************)
(* C14  Cache-key separation: two requests served through one cache entry  *)
(* (one future) have identical content: requests that differ in text,      *)
(* positional arguments, named arguments, format or cardinality never      *)
(* share an entry.                                                         *)
(***************************************************************************)
C14_DifferentContentSeparate ==
    \A i, j \in Reqs :
      (reqs[i].fut # 0 /\ reqs[i].fut = reqs[j].fut) =>
        SameContent(reqs[i].rec, reqs[j].rec)

(***************************************************************************)
(* C15  Every remote invocation is of the call variant match_func_name     *)
(* gives for the (format, cardinality) of the request it is made for, with *)
(* that request's text, positional and named arguments unchanged; and a    *)
(* request that made or caused the invocation gets that invocation's       *)
(* result or its failure.                                                  *)
(***************************************************************************)
RecOfExec(e) ==
    IF execs[e].req # 0 THEN reqs[execs[e].req].rec ELSE futs[execs[e].fut].rec

C15_SelectedVariantInvoked ==
    /\ \A e \in 1..Len(execs) :
          /\ execs[e].func = MatchFuncName(RecOfExec(e).jsonify,
                                           RecOfExec(e).required_single)
          /\ execs[e].func \in CallVariants
          /\ execs[e].qry = RecOfExec(e).qry
          /\ execs[e].args = RecOfExec(e).extra_args
          /\ execs[e].kwargs = RecOfExec(e).extra_kwargs
    /\ \A i \in Reqs :
          (Done(i) /\ reqs[i].via \in {"direct", "miss"}
             /\ reqs[i].out.what # AssertNever) =>
            /\ reqs[i].out.e \in (IF reqs[i].via = "direct" THEN ExecsOfReq(i)
                                   ELSE ExecsOfFut(reqs[i].fut))
            /\ reqs[i].out.kind = "ok" <=> execs[reqs[i].out.e].st = "ok"
            /\ reqs[i].out.kind = "exc" <=> execs[reqs[i].out.e].st = "err"

C15_Witness ==
    \E i, j \in Reqs :
      /\ reqs[i].rec = RecSelectJson /\ reqs[i].via = "direct" /\ Done(i)
      /\ reqs[i].out.kind = "ok"
      /\ execs[reqs[i].out.e].func = "query_json"
      /\ reqs[j].rec = RecSelect /\ reqs[j].via = "direct" /\ Done(j)
      /\ reqs[j].out.kind = "exc"
      /\ execs[reqs[j].out.e].func = "query"

(***************************************************************************)
(* C16  The client is lazy and memoized: none is made before the first use *)
(* of the client property, create_async_client is called at most once over *)
(* any sequence of client uses, queries and closes, and every use of the   *)
(* property returns the same client.                                       *)
(***************************************************************************)
C16_ClientMadeOnce ==
    /\ creates <= 1
    /\ Cardinality(handles) <= 1
    /\ handles = {} <=> creates = 0
    /\ creates = 0 <=> client = 0
    /\ (Len(execs) > 0 \/ closeCalls > 0) => creates = 1
    /\ handles \subseteq {client} \ {0}

C16_Witness ==
    /\ creates = 1
    /\ handles = {1}
    /\ \A i \in Reqs : Done(i)
    /\ Len(execs) = MaxReq
    /\ closeCalls = MaxClose

(***************************************************************************)
(* C17  Whenever the client exists the connection no longer holds the      *)
(* secret, and while it does not exist the secret is still held: the       *)
(* secret is dropped in the step that makes the client, and it is read     *)
(* only by that step, which happens at most once.                          *)
(***************************************************************************)
C17_SecretDroppedWithClient ==
    /\ client # 0 => ~secret_key
    /\ client = 0 => secret_key
    /\ creates <= 1

C17_Witness ==
    /\ client # 0
    /\ ~secret_key
    /\ closeCalls > 0
    /\ probe.pc = "done"
    /\ scopes[1].left = "folded"
    /\ \E i \in Reqs : Done(i)

(***************************************************************************)
(* C18  The client's own close operation is invoked at most once over any  *)
(* sequence of close() calls.                                              *)
(***************************************************************************)
C18_ClosedAtMostOnce == closeCalls <= 1

(***************************************************************************)
(* C19  close(timeout) is bounded: while it waits the timeout has not      *)
(* passed; when it returns, the shutdown completed within the timeout;     *)
(* when it raises TimeoutError, it does so when the timeout is due, with   *)
(* the shutdown cancelled.                                                 *)
(***************************************************************************)
C19_CloseBounded ==
    \A c \in 1..Len(closers) :
      /\ closers[c].pc \in {"waiting", "returned", "TimeoutError"}
      /\ closers[c].pc = "waiting" =>
            /\ now <= closers[c].t0 + closers[c].timeout
            /\ closers[c].shut = "running"
      /\ closers[c].pc = "returned" =>
            /\ closers[c].shut = "done"
            /\ closers[c].at <= closers[c].t0 + closers[c].timeout
      /\ closers[c].pc = "TimeoutError" =>
            /\ closers[c].shut = "cancelled"
            /\ closers[c].at = closers[c].t0 + closers[c].timeout

C19_Witness ==
    /\ Len(closers) = 2
    /\ closers[1].pc = "TimeoutError" /\ closers[1].timeout = 1 /\ closers[1].at = 1
    /\ closers[2].pc = "returned"

(***************************************************************************)
(* C20  The health check gives True exactly when the probe answers 200,    *)
(* and False for every other outcome: it never raises.                     *)
(***************************************************************************)
C20_HealthNeverRaises ==
    probe.pc = "done" =>
      /\ probe.result \in {"True", "False"}
      /\ probe.result = "True" <=> probe.outcome = "200"

(***************************************************************************)
(* C21  The cumulative total never decreases over begin, query, end and    *)
(* close steps: a step that lowers it is a call of the explicit reset.     *)
(***************************************************************************)
C21_TotalOnlyResetLowers ==
    [][total_dbcalls' < total_dbcalls =>
         (resets' = resets + 1 /\ total_dbcalls' = 0)]_vars

C21_Witness ==
    /\ resets = 1
    /\ total_dbcalls = 1
    /\ entered = 2
    /\ scopes[1].left = "folded"
    /\ closeCalls > 0
    /\ \E i \in Reqs : Done(i) /\ reqs[i].out.kind = "exc"

(***************************************************************************)
(* C22  When the task-group scope is left, normally or with a failure,     *)
(* every sibling task created in it is done (completed, failed or          *)
(* cancelled): none is waiting to run, awaiting its remote call or         *)
(* awaiting the memoizer's future.                                         *)
(***************************************************************************)
C22_GroupLeftAllDone ==
    tg.pc = "left" => \A i \in Reqs : ~Unfinished(i)

C22_Witness ==
    /\ tg.pc = "left"
    /\ tg.raised = "ExceptionGroup"
    /\ \A i \in Reqs : Done(i)
    /\ \E i \in Reqs : reqs[i].out.what = "CancelledError"

(***************************************************************************)
(* C23  A group left after a sibling failed raises an aggregate that holds *)
(* the error of every failed sibling, and every sibling that completed     *)
(* successfully is still held by the caller with its result.               *)
(***************************************************************************)
C23_AggregateHoldsEveryError ==
    tg.pc = "left" =>
        /\ (tg.raised = "ExceptionGroup") <=> (\E i \in Reqs : Failed(i))
        /\ \A i \in Reqs :
              Failed(i) => [req |-> i, what |-> reqs[i].out.what,
                            e |-> reqs[i].out.e] \in tg.errors
        /\ \A i \in Reqs :
              (Done(i) /\ reqs[i].out.kind = "ok") =>
                  /\ i \in tg.kept
                  /\ \/ reqs[i].out.e \in ExecsOfReq(i)
                     \/ reqs[i].fut # 0 /\ reqs[i].out.e \in ExecsOfFut(reqs[i].fut)

C23_Witness ==
    /\ tg.pc = "left"
    /\ tg.raised = "ExceptionGroup"
    /\ Cardinality(tg.errors) = 2
    /\ \A i \in Reqs : Failed(i)

(***************************************************************************)
(* C27  After a group has failed and its scope has been left, no remote    *)
(* execution started for one of its sibling queries is still in flight,    *)
(* with the memoizer installed or not.                                     *)
(***************************************************************************)
C27_NoExecutionOutlivesGroup ==
    (tg.pc = "left" /\ tg.raised = "ExceptionGroup") =>
        \A e \in 1..Len(execs) : execs[e].st # "run"

(***************************************************************************)
(* C24  begin() of a window that overlaps no other leaves the per-window   *)
(* counter at zero, whatever was recorded before, and leaves the           *)
(* cumulative total as it was.                                             *)
(***************************************************************************)
C24_BeginZeroesWindowCount ==
    [][\A s \in Scopes :
         (/\ scopes[s].pc = "out"
          /\ scopes'[s].pc = "body"
          /\ \A r \in Scopes : scopes[r].pc = "out")
         => (dbcalls' = 0 /\ total_dbcalls' = total_dbcalls)]_vars

(***************************************************************************)
(* C25  No recorded call is lost or counted twice: under every             *)
(* interleaving of queries and session exits, two overlapping scopes       *)
(* included, the per-window count plus the cumulative total equals the     *)
(* number of record_call steps taken (one per direct _query, one per       *)
(* inner task of the memoizer that has run).                               *)
(***************************************************************************)
RecordCalls ==
    Cardinality({i \in Reqs : reqs[i].via = "direct"})
        + Cardinality({f \in 1..Len(futs) : futs[f].task # "ready"})

C25_NoCallLostOrDoubled == dbcalls + total_dbcalls = RecordCalls

C25_Witness ==
    /\ RecordCalls = 2
    /\ total_dbcalls = 2
    /\ entered = 2
    /\ scopes[1].left = "folded"
    /\ scopes[2].left = "folded"
    /\ \E i, j \in Reqs : reqs[i].via = "direct" /\ reqs[j].via = "miss"

(***************************************************************************)
(* C26  Whenever no session window is open, the per-window counter is 0:   *)
(* the calls of a query task created inside a scope are folded into the    *)
(* total by that scope's end, also when the scope is left right after the  *)
(* task was created.                                                       *)
(***************************************************************************)
C26_ZeroOutsideWindows ==
    (\A s \in DOMAIN scopes : scopes[s].pc = "out") => dbcalls = 0

C29_YoungEntryNeverDiscarded ==
    [][\A n \in 1..Len(cache) :
         (/\ cache[n].timed
          /\ now < cache[n].due
          /\ futs[cache[n].fut].out.kind = "ok")
         => \E m \in 1..Len(cache') : cache'[m].key = cache[n].key]_vars

(***************************************************************************)
(* C30  A mutating query never invalidates or updates a cache entry: no    *)
(* step of a mutating query changes the memoizer's map or its futures,     *)
(* and a non-mutating query cached before a mutating query completed and   *)
(* looked up after it, its entry of before still in the map, gets the      *)
(* value stored before the mutation and makes no remote call.              *)
(***************************************************************************)
MutationDone ==
    \E j \in Reqs :
        /\ HasKeyword(reqs[j].rec.qry)
        /\ Done(j)
        /\ reqs[j].out.kind = "ok"

C30_MutationKeepsCache ==
    [][/\ \A j \in Reqs :
            (/\ reqs[j].pc # "idle"
             /\ HasKeyword(reqs[j].rec.qry)
             /\ reqs'[j] # reqs[j])
            => (cache' = cache /\ futs' = futs)
       /\ \A i \in Reqs :
            (/\ MutationDone
             /\ reqs[i].pc = "ready"
             /\ reqs'[i].pc # "ready"
             /\ reqs[i].rec = RecSelect
             /\ CacheIdx(MakeKey(RecSelect)) # 0
             /\ cache[CacheIdx(MakeKey(RecSelect))].fut = 1)
            => (/\ reqs'[i].via = "hit"
                /\ reqs'[i].out = Returned(1)
                /\ execs' = execs
                /\ dbcalls' = dbcalls)]_vars

C30_Witness ==
    /\ ttl > 0
    /\ now < ttl
    /\ reqs[1].rec = RecInsert
    /\ reqs[1].out = Returned(MaxSize + 1)
    /\ reqs[2].rec = RecSelect
    /\ reqs[2].via = "hit"
    /\ reqs[2].out = Returned(1)
    /\ Len(execs) = MaxSize + 1

=============================================================================
